---------------------------- MODULE Spec2Model ----------------------------
(***************************************************************************)
(* net-disk backend (backend/main.go): an HTTP service over one SQLite     *)
(* table `files`.  Every incoming request runs in its own goroutine; the   *)
(* goroutines share the database handle and nothing else.  A request is    *)
(* modelled as a small process.                                            *)
(***************************************************************************)
EXTENDS Integers, Sequences, FiniteSets, TLC

(* ------------------------------ bounds -------------------------------- *)

\* number of requests the service receives in a run
MaxReqs == 3

\* number of those requests that may be uploads
MaxUploads == 2

\* number of I/O failures (stream or database) the environment injects in a run
MaxFaults == 1

Reqs == 1..MaxReqs

\* uploaded bodies, as byte sequences: "" and "hello"
Contents == { <<>>, <<104, 101, 108, 108, 111>> }

\* client-supplied file names
Filenames == {"a.txt", "b.txt"}

(* --------------------------- pure functions --------------------------- *)

\* sha256 + hex.EncodeToString of the bytes read by calculateHash
Sha256Hex(bytes) ==
    CASE bytes = <<>> ->
           "e3b0c44298fc1c149afbf4c8996fb92427ae41e4649b934ca495991b7852b855"
      [] bytes = <<104, 101, 108, 108, 111>> ->
           "2cf24dba5fb0a30e26e83b2ac5b9e29e1b161e5c1fa7425e73043362938b9824"

\* io.ReadAll on the open stream: the bytes from the read position to the end
ReadAll(stream) == SubSeq(stream.data, stream.pos + 1, Len(stream.data))

\* variant: the existence query always answers false
fileExists_Never(db, hash) == FALSE

\* variant: SELECT EXISTS(SELECT 1 FROM files), the WHERE clause forgotten
fileExists_AnyRow(db, hash) == Len(db) > 0

\* SELECT EXISTS(SELECT 1 FROM files WHERE hash = ?)
fileExists(db, hash) == \E i \in 1..Len(db) : db[i].hash = hash

\* variant: column hash declared without UNIQUE
addFile_NoUnique(db, seq, file) ==
    [err |-> "nil",
     db  |-> Append(db, [id |-> seq + 1, hash |-> file.Hash,
                         name |-> file.Name, file |-> file.File]),
     seq |-> seq + 1]

\* variant: INSERT OR REPLACE, the row holding the hash is replaced
addFile_Replace(db, seq, file) ==
    [err |-> "nil",
     db  |-> Append(SelectSeq(db, LAMBDA row : row.hash # file.Hash),
                    [id |-> seq + 1, hash |-> file.Hash,
                     name |-> file.Name, file |-> file.File]),
     seq |-> seq + 1]

\* variant: the row is written before the constraint is checked and stays
\* when the statement reports the violation
addFile_NotAtomic(db, seq, file) ==
    [err |-> IF \E i \in 1..Len(db) : db[i].hash = file.Hash
             THEN "unique" ELSE "nil",
     db  |-> Append(db, [id |-> seq + 1, hash |-> file.Hash,
                         name |-> file.Name, file |-> file.File]),
     seq |-> seq + 1]

\* INSERT INTO files (hash, name, file) VALUES (?, ?, ?) against
\*   id INTEGER PRIMARY KEY AUTOINCREMENT, hash TEXT NOT NULL UNIQUE
\* The statement is atomic: either the row is appended with the next id of
\* the sequence, or the UNIQUE constraint rejects it and nothing changes.
addFile(db, seq, file) ==
    IF \E i \in 1..Len(db) : db[i].hash = file.Hash
    THEN [err |-> "unique", db |-> db, seq |-> seq]
    ELSE [err |-> "nil",
          db  |-> Append(db, [id |-> seq + 1, hash |-> file.Hash,
                              name |-> file.Name, file |-> file.File]),
          seq |-> seq + 1]

\* variant: the scan loop stops one row early
getAllFiles_DropsLastRow(db) ==
    [i \in 1..(Len(db) - 1) |->
        [ID |-> db[i].id, Hash |-> db[i].hash, Name |-> db[i].name, File |-> <<>>]]

\* SELECT id, hash, name FROM files, scanned row by row into []File;
\* the File field of each element is never filled
getAllFiles(db) ==
    [i \in 1..Len(db) |->
        [ID |-> db[i].id, Hash |-> db[i].hash, Name |-> db[i].name, File |-> <<>>]]

\* encoding/json of a File value: the tags id, hash, name; File is tagged "-"
FileJSON(f) == [id |-> f.ID, hash |-> f.Hash, name |-> f.Name]

\* c.JSON(http.StatusOK, files)
FilesJSON(files) == [i \in 1..Len(files) |-> FileJSON(files[i])]

(* ------------------------------- state -------------------------------- *)

VARIABLES
    db,       \* rows of table files, in rowid order
    seq,      \* sqlite_sequence of the table (last AUTOINCREMENT id given)
    alive,    \* the server process is running
    pc,       \* per request: position in its handler
    req,      \* per request: what the client sent
    stream,   \* per upload: the opened multipart file (data, read position)
    hash,     \* per upload: local variable hash
    fileData, \* per upload: local variable fileData
    err,      \* per request: the error of the last database call
    resp,     \* per request: the response written to the client
    prior,    \* per request: the uploads already answered 200 when it arrived
    faults    \* I/O failures injected so far

vars == <<db, seq, alive, pc, req, stream, hash, fileData, err, resp, prior,
          faults>>

NoReq    == [kind |-> "none", hasFile |-> FALSE, filename |-> "", content |-> <<>>]
NoStream == [open |-> FALSE, data |-> <<>>, pos |-> 0]
NoResp   == [status |-> 0, message |-> "", error |-> "", filename |-> "",
             hash |-> "", body |-> <<>>]

\* gin.H{"error": msg} with the given status
ErrorResp(status, msg) == [NoResp EXCEPT !.status = status, !.error = msg]

Init ==
    /\ db = <<>>
    /\ seq = 0
    /\ alive = TRUE
    /\ pc = [r \in Reqs |-> "idle"]
    /\ req = [r \in Reqs |-> NoReq]
    /\ stream = [r \in Reqs |-> NoStream]
    /\ hash = [r \in Reqs |-> ""]
    /\ fileData = [r \in Reqs |-> <<>>]
    /\ err = [r \in Reqs |-> "nil"]
    /\ resp = [r \in Reqs |-> NoResp]
    /\ prior = [r \in Reqs |-> {}]
    /\ faults = 0

\* the environment makes the current I/O call fail / lets it succeed
Fault   == faults < MaxFaults /\ faults' = faults + 1
NoFault == faults' = faults

\* requests are numbered in the order they arrive
Arrives(r) ==
    /\ alive
    /\ pc[r] = "idle"
    /\ IF r = 1 THEN TRUE ELSE pc[r - 1] # "idle"

\* the uploads that have been answered 200
Succeeded == {q \in Reqs : req[q].kind = "upload" /\ pc[q] = "done"
                           /\ resp[q].status = 200}

\* the handler returns: the response is written, the deferred Close runs
Return(r, response) ==
    /\ pc' = [pc EXCEPT ![r] = "done"]
    /\ resp' = [resp EXCEPT ![r] = response]
    /\ stream' = [stream EXCEPT ![r] = NoStream]
    /\ hash' = [hash EXCEPT ![r] = ""]
    /\ fileData' = [fileData EXCEPT ![r] = <<>>]

(* ------------------------------ GET /ping ----------------------------- *)

Ping(r) ==
    /\ Arrives(r)
    /\ req' = [req EXCEPT ![r] = [NoReq EXCEPT !.kind = "ping"]]
    /\ prior' = [prior EXCEPT ![r] = Succeeded]
    /\ Return(r, [NoResp EXCEPT !.status = 200, !.message = "pong"])
    /\ UNCHANGED <<db, seq, alive, err, faults>>

(* ----------------------------- POST /upload --------------------------- *)
(* The handler touches shared state at three places: the existence query,  *)
(* the insert, and (through log.Fatal) the process itself.  Statements     *)
(* that work on the request's own stream only are taken together with the  *)
(* shared step that follows or precedes them.                              *)

\* c.FormFile("file"); file.Open(); hash := calculateHash(fileContent);
\* fileContent.Seek(0, io.SeekStart)
\* A read error inside calculateHash is log.Fatal: the process exits.
\* Seek's result is discarded: when it fails the read position stays at
\* the end of the stream.
UploadHash(r) ==
    /\ Arrives(r)
    /\ Cardinality({q \in Reqs : req[q].kind = "upload"}) < MaxUploads
    /\ prior' = [prior EXCEPT ![r] = Succeeded]
    /\ \/ /\ NoFault
          /\ req' = [req EXCEPT ![r] = [NoReq EXCEPT !.kind = "upload"]]
          /\ Return(r, ErrorResp(400, "No file is uploaded"))
          /\ UNCHANGED alive
       \/ \E n \in Filenames, c \in Contents :
            /\ req' = [req EXCEPT ![r] = [kind |-> "upload", hasFile |-> TRUE,
                                          filename |-> n, content |-> c]]
            /\ \/ /\ Fault
                  /\ Return(r, ErrorResp(500, "Failed to read file"))
                  /\ UNCHANGED alive
               \/ /\ Fault
                  /\ alive' = FALSE
                  /\ pc' = [pc EXCEPT ![r] = "fatal"]
                  /\ stream' = [stream EXCEPT ![r] =
                                  [open |-> TRUE, data |-> c, pos |-> 0]]
                  /\ UNCHANGED <<resp, hash, fileData>>
               \/ \E seekOk \in BOOLEAN :
                    /\ IF seekOk THEN NoFault ELSE Fault
                    /\ hash' = [hash EXCEPT ![r] = Sha256Hex(c)]
                    /\ stream' = [stream EXCEPT ![r] =
                                    [open |-> TRUE, data |-> c,
                                     pos |-> IF seekOk THEN 0 ELSE Len(c)]]
                    /\ pc' = [pc EXCEPT ![r] = "exists"]
                    /\ UNCHANGED <<resp, fileData, alive>>
    /\ UNCHANGED <<db, seq, err>>

\* exists, err := fileExists(db, hash); fileData, err := io.ReadAll(fileContent)
UploadExists(r) ==
    /\ alive
    /\ pc[r] = "exists"
    /\ \/ /\ Fault
          /\ err' = [err EXCEPT ![r] = "io"]
          /\ Return(r, ErrorResp(500, "Failed to check file existence"))
       \/ /\ NoFault
          /\ fileExists(db, hash[r])
          /\ Return(r, ErrorResp(409, "File already exists"))
          /\ UNCHANGED err
       \/ /\ Fault
          /\ ~fileExists(db, hash[r])
          /\ Return(r, ErrorResp(500, "Failed to read file content"))
          /\ UNCHANGED err
       \/ /\ NoFault
          /\ ~fileExists(db, hash[r])
          /\ fileData' = [fileData EXCEPT ![r] = ReadAll(stream[r])]
          /\ stream' = [stream EXCEPT ![r].pos = Len(stream[r].data)]
          /\ pc' = [pc EXCEPT ![r] = "insert"]
          /\ UNCHANGED <<resp, hash, err>>
    /\ UNCHANGED <<db, seq, alive, req, prior>>

\* addFile(db, File{Hash: hash, Name: file.Filename, File: fileData})
UploadInsert(r) ==
    /\ alive
    /\ pc[r] = "insert"
    /\ \/ /\ Fault
          /\ err' = [err EXCEPT ![r] = "io"]
          /\ Return(r, ErrorResp(500, "Failed to save file to database"))
          /\ UNCHANGED <<db, seq>>
       \/ LET res == addFile(db, seq, [Hash |-> hash[r], Name |-> req[r].filename,
                                       File |-> fileData[r]])
          IN /\ NoFault
             /\ db' = res.db
             /\ seq' = res.seq
             /\ err' = [err EXCEPT ![r] = res.err]
             /\ IF res.err # "nil"
                THEN Return(r, ErrorResp(500, "Failed to save file to database"))
                ELSE /\ pc' = [pc EXCEPT ![r] = "respond"]
                     /\ UNCHANGED <<resp, stream, hash, fileData>>
    /\ UNCHANGED <<alive, req, prior>>

\* c.JSON(http.StatusOK, gin.H{"message", "filename", "hash"})
UploadRespond(r) ==
    /\ alive
    /\ pc[r] = "respond"
    /\ Return(r, [NoResp EXCEPT !.status = 200,
                                !.message = "File uploaded successfully",
                                !.filename = req[r].filename,
                                !.hash = hash[r]])
    /\ UNCHANGED <<db, seq, alive, req, err, prior, faults>>

(* ------------------------------ GET /files ---------------------------- *)

ListFiles(r) ==
    /\ Arrives(r)
    /\ req' = [req EXCEPT ![r] = [NoReq EXCEPT !.kind = "list"]]
    /\ prior' = [prior EXCEPT ![r] = Succeeded]
    /\ \/ /\ Fault
          /\ err' = [err EXCEPT ![r] = "io"]
          /\ Return(r, ErrorResp(500, "Failed to get files"))
       \/ /\ NoFault
          /\ Return(r, [NoResp EXCEPT !.status = 200,
                                      !.body = FilesJSON(getAllFiles(db))])
          /\ UNCHANGED err
    /\ UNCHANGED <<db, seq, alive>>

(* ---------------------------------------------------------------------- *)

Next ==
    \E r \in Reqs :
        \/ Ping(r)
        \/ UploadHash(r)
        \/ UploadExists(r)
        \/ UploadInsert(r)
        \/ UploadRespond(r)
        \/ ListFiles(r)

Spec == Init /\ [][Next]_vars

(* ------------------------------ properties ---------------------------- *)

\* the requests that are uploads of some content
Uploads == {r \in Reqs : req[r].kind = "upload" /\ req[r].hasFile}

\* r has just received its response in this step
Responds(r) == pc[r] # "done" /\ pc'[r] = "done"

\* the rows of a table whose hash is h
RowsOf(table, h) == {i \in 1..Len(table) : table[i].hash = h}

\* C1: no two rows of the table ever carry the same hash, and an insert of
\* a hash that is already in the table fails and leaves the table as it was.
C1_UniqueHashEnforced ==
    [][ /\ \A i, j \in 1..Len(db') : db'[i].hash = db'[j].hash => i = j
        /\ \A r \in Reqs :
             (pc[r] = "insert" /\ pc'[r] # "insert" /\ RowsOf(db, hash[r]) # {})
                => /\ db' = db
                   /\ seq' = seq
                   /\ err'[r] # "nil"
                   /\ pc'[r] = "done" /\ resp'[r].status # 200 ]_vars

\* C1 witness: two uploads of one content both passed the existence
\* query; one was inserted, the other was turned down by the constraint.
C1_Witness ==
    \E r1, r2 \in Uploads :
        /\ r1 # r2
        /\ req[r1].content = req[r2].content
        /\ resp[r1].status = 200
        /\ err[r2] = "unique"
        /\ Len(db) = 1

\* C2 as stated: once an upload of B has been answered 200, every upload of
\* B arriving later is answered 409, and the table holds one row for the
\* hash, named as in the first upload.
C2_LaterUploadAlwaysConflict ==
    \A r2 \in Uploads : \A r1 \in prior[r2] :
        (req[r1].content = req[r2].content /\ pc[r2] = "done")
            => /\ resp[r2].status = 409
               /\ \E i \in 1..Len(db) :
                    /\ RowsOf(db, resp[r1].hash) = {i}
                    /\ db[i].name = req[r1].filename

\* C2 amended: once an upload of B has been answered 200, an upload of B
\* arriving later never gets past the existence query: its answer is 409,
\* or 500 when opening its stream or the existence query itself failed;
\* the table holds one row for the hash, named as in the first upload.
C2_LaterUploadNeverSucceeds ==
    \A r2 \in Uploads : \A r1 \in prior[r2] :
        req[r1].content = req[r2].content
            => /\ pc[r2] \in {"exists", "done", "fatal"}
               /\ pc[r2] = "done" =>
                    \/ resp[r2].status = 409
                    \/ /\ resp[r2].status = 500
                       /\ resp[r2].error \in {"Failed to read file",
                                              "Failed to check file existence"}
               /\ \E i \in 1..Len(db) :
                    /\ RowsOf(db, resp[r1].hash) = {i}
                    /\ db[i].name = req[r1].filename

\* C2 witness: after "a.txt" was stored, the same bytes sent as "b.txt"
\* were answered 409.
C2_Witness ==
    \E r2 \in Uploads : \E r1 \in prior[r2] :
        /\ req[r1].content = req[r2].content
        /\ req[r1].filename = "a.txt" /\ req[r2].filename = "b.txt"
        /\ pc[r2] = "done" /\ resp[r2].status = 409

\* C3: an upload whose insert was turned down by the uniqueness constraint
\* is answered 409; an insert that failed for another reason is answered 500.
C3_UniqueRejectionIsConflict ==
    \A r \in Uploads :
        pc[r] = "done" =>
            /\ err[r] = "unique" => resp[r].status = 409
            /\ (err[r] = "io" /\ resp[r].error = "Failed to save file to database")
                  => resp[r].status = 500

\* C4: an upload whose stream failed while being hashed is answered 500,
\* and the service keeps running.
C4_HashFailureContained ==
    \A r \in Reqs : pc[r] = "fatal" => (alive /\ resp[r].status = 500)

\* C5: the hash of every row is the digest of the row's content.
C5_HashIsDigestOfContent ==
    \A i \in 1..Len(db) : db[i].hash = Sha256Hex(db[i].file)

\* C6: a request's only step that changes the table is its insert, which
\* appends one complete row and leads to the 200 answer; a request
\* answered 400, 409 or 500 has not changed the table.
C6_OneRecordPerSuccess ==
    [][ /\ db' # db => \E r \in Reqs : pc[r] = "insert" /\ pc'[r] = "respond"
        /\ \A r \in Reqs :
             /\ (pc[r] # "respond" /\ pc'[r] = "respond")
                   => /\ pc[r] = "insert"
                      /\ Len(db') = Len(db) + 1
                      /\ SubSeq(db', 1, Len(db)) = db
                      /\ db'[Len(db')].hash = Sha256Hex(req[r].content)
                      /\ db'[Len(db')].name = req[r].filename
                      /\ DOMAIN db'[Len(db')] = {"id", "hash", "name", "file"}
             /\ pc[r] = "respond" => pc'[r] \in {"respond", "done"}
             /\ (Responds(r) /\ resp'[r].status = 200 /\ req'[r].kind = "upload")
                   => pc[r] = "respond" /\ db' = db
             /\ (Responds(r) /\ resp'[r].status # 200)
                   => /\ pc[r] # "respond"
                      /\ resp'[r].status \in {400, 409, 500}
                      /\ db' = db ]_vars

\* C6 witness: one upload was answered 200, another 409, and the table
\* holds the one row.
C6_Witness ==
    \E r1, r2 \in Reqs :
        /\ r1 \in Succeeded
        /\ pc[r2] = "done" /\ resp[r2].status = 409
        /\ Len(db) = 1

\* C7: a row that is in the table stays in it, unchanged, in every later
\* state.
C7_CreateOnly ==
    [][ \A i \in 1..Len(db) : \E j \in 1..Len(db') : db'[j] = db[i] ]_vars

\* C7 witness: the table holds two rows, and a ping and a listing have been
\* served as well.
C7_Witness ==
    /\ Len(db) = 2
    /\ \E r \in Reqs : pc[r] = "done" /\ req[r].kind \in {"list", "ping"}
                       /\ prior[r] # {}

C9_DifferentContentsIndependent ==
    \A r1, r2 \in Uploads :
        ( /\ req[r1].content # req[r2].content
          /\ pc[r1] = "done" /\ pc[r2] = "done"
          /\ resp[r1].status # 500 /\ resp[r2].status # 500
          /\ \A q \in Uploads \ {r1, r2} :
                req[q].content \notin {req[r1].content, req[r2].content} )
        => /\ resp[r1].status = 200 /\ resp[r2].status = 200
           /\ resp[r1].hash # resp[r2].hash
           /\ RowsOf(db, resp[r1].hash) # {} /\ RowsOf(db, resp[r2].hash) # {}
           /\ \A l \in Reqs :
                ( /\ req[l].kind = "list" /\ resp[l].status = 200
                  /\ {r1, r2} \subseteq prior[l] )
                => /\ RowsOf(resp[l].body, resp[r1].hash) # {}
                   /\ RowsOf(resp[l].body, resp[r2].hash) # {}

\* C9 witness: "" and "hello" were uploaded by overlapping requests, both
\* were answered 200, and a later listing shows both.
C9_Witness ==
    \E r1, r2 \in Uploads, l \in Reqs :
        /\ req[r1].content # req[r2].content
        /\ resp[r1].status = 200 /\ resp[r2].status = 200
        /\ r1 \notin prior[r2] /\ r2 \notin prior[r1]
        /\ req[l].kind = "list" /\ resp[l].status = 200
        /\ {r1, r2} \subseteq prior[l]

\* C10: for each hash at most one request is answered 200 with it, and
\* once a request has that answer the table holds the row for the hash
\* under that request's file name.
C10_AtMostOneSuccessPerHash ==
    /\ \A r1, r2 \in Succeeded : resp[r1].hash = resp[r2].hash => r1 = r2
    /\ \A r \in Succeeded :
         /\ resp[r].hash = Sha256Hex(req[r].content)
         /\ \E i \in 1..Len(db) :
              /\ db[i].hash = resp[r].hash
              /\ db[i].name = req[r].filename
              /\ resp[r].filename = req[r].filename

\* C10 witness: two overlapping uploads of one content, under different
\* names; one was answered 200, the other was not.
C10_Witness ==
    \E r1 \in Succeeded, r2 \in Uploads :
        /\ r1 # r2
        /\ req[r1].content = req[r2].content
        /\ req[r1].filename # req[r2].filename
        /\ r1 \notin prior[r2]
        /\ pc[r2] = "done"

=============================================================================
